---- MODULE Spec2Model ----
(***************************************************************************)
(* Model of the Path Vcarve operation of FreeCAD:                          *)
(*   PathScripts/PathVcarve.py       wire assembly and wire sequencing     *)
(*   PathScripts/PathWidthToDepth.py width -> depth calculators            *)
(*                                                                         *)
(* The specifications share the variables:                                 *)
(*   SpecWires  _collectVoronoiWires, statement by statement               *)
(*   SpecSort   _sortVoronoiWires, one loop iteration per step             *)
(*   SpecDepth  the WidthToDepthCalculator factory and its calculators     *)
(*   SpecPath   simplify_edges and cutWire on the points of one wire       *)
(*   SpecRun    opExecute and buildPathMedial, run after run               *)
(*   SpecWiresFair  SpecWires, under the fairness of a running program     *)
(***************************************************************************)
EXTENDS Integers, Sequences, FiniteSets, TLC

VARIABLES
    \* ---- _collectVoronoiWires
    vd,        \* vd.Edges: the half-edges of the diagram
    vertex,    \* local dict: vertex index -> list of unconsumed incident edges
    Vertex,    \* module-level dict PathVcarve.Vertex
    knots,     \* local list of knot vertex indices
    wires,     \* local list of wires collected so far
    we,        \* edges of the wire being walked
    vFirst, vStart, vLast,
    pc,        \* position in the function being run
    \* ---- _sortVoronoiWires (its parameter `wires` is the variable wires)
    toPoint,   \* vertex index -> the point v.toPoint() of that vertex
    begin,     \* local dict: wire index -> first point of the wire
    end,       \* local dict: wire index -> last point of the wire
    start,     \* parameter start: the current position
    result,    \* local list: the wires placed so far
    \* ---- PathWidthToDepth
    tool,      \* the tool: Diameter, TipDiameter, CuttingEdgeAngle
    bitShape,  \* tool.BitShape
    zStart,    \* the limits handed to the factory or to SetLimits
    zFinal,
    calculator, \* the calculator object the factory returned
    raised,    \* the exception that left the factory, or "none"
    width,     \* argument of the last WidthToDepth call
    depth,     \* its result
    \* ---- opExecute and buildPathMedial
    VD,        \* module-level list PathVcarve.VD of (f, vd, wires)
    VertexRun, \* the run whose _collectVoronoiWires call last wrote Vertex
    faces,     \* the faces handed to buildPathMedial
    distance,  \* vertex index -> its distance, as edge.getDistances() gives it
    voronoiWires, \* local list of buildPathMedial
    pathlist,  \* local list of buildPathMedial
    commandlist, \* self.commandlist
    run,       \* the number of opExecute calls so far
    iter,      \* iterations done of the for loop being run
    \* ---- simplify_edges and cutWire
    simplified_points, \* local list of simplify_edges
    simplified_edges,  \* local list of simplify_edges
    path       \* local list of cutWire

wireVars == <<vd, vertex, Vertex, knots, wires, we, vFirst, vStart, vLast, pc>>

sortVars == <<toPoint, begin, end, start, result>>

depthVars == <<tool, bitShape, zStart, zFinal, calculator, raised, width, depth>>

(* The variables of _collectVoronoiWires other than pc *)
wireVars_ == <<vd, vertex, Vertex, knots, wires, we, vFirst, vStart, vLast>>

runVars == <<VD, VertexRun, faces, distance, voronoiWires, pathlist,
             commandlist, run, iter>>

pathVars == <<simplified_points, simplified_edges, path>>

vars == <<wireVars, sortVars, depthVars, runVars, pathVars>>

-----------------------------------------------------------------------------
(* Edge colours, PathVcarve.py:43-48 *)
PRIMARY == 0
SECONDARY == 1
TWIN == 5

(* Python's None for a vertex index; vertex indices of the model start at 1 *)
None == 0

(* Bound: number of undirected primary edges of a diagram *)
MaxEdges == 4

(* Bounds: number of wires handed to _sortVoronoiWires; largest coordinate  *)
(* of a wire endpoint                                                       *)
MaxWires == 3
MaxCoord == 2

(* Bounds: tool radius and tip radius; the limits zStart in 0..MaxZStart and *)
(* zFinal in -MaxDepth..MaxZStart; the widths asked for                     *)
MaxRadius == 5
MaxTipRadius == 2
MaxZStart == 1
MaxDepth == 10
MaxWidth == 6

(* FreeCAD.Vector(0, 0, 0), the default of the parameter start (line 127);  *)
(* vertices are planar, so points are [x, y]                                *)
Origin == [x |-> 0, y |-> 0]

-----------------------------------------------------------------------------
(* No run of opExecute so far, and no call of simplify_edges or cutWire *)
NoRun ==
    /\ VD = <<>>
    /\ VertexRun = 0
    /\ faces = <<>>
    /\ distance = <<>>
    /\ voronoiWires = <<>>
    /\ pathlist = <<>>
    /\ commandlist = <<>>
    /\ run = 0
    /\ iter = 0

NoPath ==
    /\ simplified_points = <<>>
    /\ simplified_edges = <<>>
    /\ path = <<>>

-----------------------------------------------------------------------------
(* Half-edges.  A half-edge is [Index, Vertices, Color]; Vertices is the    *)
(* pair <<start, end>> of vertex indices (Python's Vertices[0] and          *)
(* Vertices[1]).  The diagram stores a half-edge and its twin at adjacent   *)
(* indices 2k and 2k+1; the twin runs the other way.                        *)

Twin(e) ==
    [Index    |-> IF e.Index % 2 = 0 THEN e.Index + 1 ELSE e.Index - 1,
     Vertices |-> <<e.Vertices[2], e.Vertices[1]>>,
     Color    |-> IF e.Color = PRIMARY THEN TWIN
                  ELSE IF e.Color = TWIN THEN PRIMARY ELSE e.Color]

(* The undirected edge a half-edge belongs to *)
Undirected(e) == e.Index \div 2

Range(s) == {s[i] : i \in DOMAIN s}

-----------------------------------------------------------------------------
(* Input diagrams.  Vertex indices are only ever compared for equality, so  *)
(* the diagrams are built up to renaming of vertices: vertices are numbered *)
(* in order of first appearance in vd.Edges.  No self-loops and no two      *)
(* edges between the same two vertices.  vd.Edges holds both half-edges of  *)
(* every edge; colorTwins (line 293) has coloured one of each pair TWIN, so *)
(* exactly one half-edge of each pair is still PRIMARY.                     *)

UsedVertices(s) == UNION {{s[i].Vertices[1], s[i].Vertices[2]} : i \in DOMAIN s}

(* The primary half-edges that may come next in a diagram of half-edges d *)
NextEdges(d) ==
    LET used == Cardinality(UsedVertices(d))
    IN  {[Index |-> Len(d), Vertices |-> t, Color |-> PRIMARY] :
            t \in {t \in (1..(used + 2)) \X (1..(used + 2)) :
                     /\ t[1] # t[2]
                     /\ t[1] <= used + 1
                     /\ t[2] <= (IF t[1] > used THEN t[1] ELSE used) + 1
                     /\ \A i \in DOMAIN d : d[i].Vertices # t}}

-----------------------------------------------------------------------------
(* _collectVoronoiWires, PathVcarve.py:65-124 *)

PrimaryEdges(d) == SelectSeq(d, LAMBDA e : e.Color = PRIMARY)

(* The (vertex, edge) pairs in the order lines 68-69 visit them *)
Incidences(edges) ==
    [k \in 1..(2 * Len(edges)) |->
        LET e == edges[(k + 1) \div 2]
        IN  <<e.Vertices[IF k % 2 = 1 THEN 1 ELSE 2], e>>]

(* Keys of the dict `vertex` in insertion order *)
RECURSIVE Dedupe(_, _)
Dedupe(s, seen) ==
    IF s = <<>> THEN <<>>
    ELSE IF Head(s) \in seen THEN Dedupe(Tail(s), seen)
    ELSE <<Head(s)>> \o Dedupe(Tail(s), seen \cup {Head(s)})

VertexKeys(edges) ==
    LET inc == Incidences(edges)
    IN  Dedupe([k \in DOMAIN inc |-> inc[k][1]], {})

(* The dict `vertex` after lines 67-73 *)
BuildVertex(edges) ==
    LET inc  == Incidences(edges)
        keys == VertexKeys(edges)
    IN  [i \in Range(keys) |->
            LET mine == SelectSeq(inc, LAMBDA p : p[1] = i)
            IN  [k \in DOMAIN mine |-> mine[k][2]]]

(* Lines 79-85: the knots *)
KnotsJunctionsFirst(keys, vtx) ==
    LET ends  == SelectSeq(keys, LAMBDA i : Len(vtx[i]) = 1)
        forks == SelectSeq(keys, LAMBDA i : Len(vtx[i]) > 2)
        some  == SelectSeq(keys, LAMBDA i : Len(vtx[i]) > 0)
    IN  IF Len(forks \o ends) = 0
        THEN (IF some = <<>> THEN <<>> ELSE <<Head(some)>>)
        ELSE forks \o ends

KnotsEveryVertex(keys, vtx) ==
    SelectSeq(keys, LAMBDA i : Len(vtx[i]) > 0)

KnotsNoSynthesis(keys, vtx) ==
    SelectSeq(keys, LAMBDA i : Len(vtx[i]) = 1)
        \o SelectSeq(keys, LAMBDA i : Len(vtx[i]) > 2)

Knots(keys, vtx) ==
    LET ends  == SelectSeq(keys, LAMBDA i : Len(vtx[i]) = 1)
        forks == SelectSeq(keys, LAMBDA i : Len(vtx[i]) > 2)
        some  == SelectSeq(keys, LAMBDA i : Len(vtx[i]) > 0)
    IN  IF Len(ends \o forks) = 0
        THEN (IF some = <<>> THEN <<>> ELSE <<Head(some)>>)
        ELSE ends \o forks

(* Lines 87-89: consume.  The new dict; the return value is ConsumedAll *)
consumeKeepsEdge(vtx, v, edge) ==
    [vtx EXCEPT ![v] = SelectSeq(@, LAMBDA e : e.Index = edge.Index)]

consume(vtx, v, edge) ==
    [vtx EXCEPT ![v] = SelectSeq(@, LAMBDA e : e.Index # edge.Index)]

ConsumedAll(vtx, v) == Len(vtx[v]) = 0

(* Lines 92-97: the half-edge appended to the wire, oriented along the walk *)
OrientedNeverTwin(v, edge) == edge

Oriented(v, edge) ==
    IF v = edge.Vertices[1] THEN edge ELSE Twin(edge)

(* Lines 91-102: traverse.  [vertex, edges, ret] *)
traverse(vtx, v, edge, edges) ==
    LET vEnd == IF v = edge.Vertices[1] THEN edge.Vertices[2] ELSE edge.Vertices[1]
        vtx1 == consume(vtx, v, edge)
        vtx2 == consume(vtx1, vEnd, edge)
    IN  [vertex |-> vtx2,
         edges  |-> Append(edges, Oriented(v, edge)),
         ret    |-> IF ConsumedAll(vtx2, vEnd) THEN None ELSE vEnd]

(* Lines 281-293: the diagram gets one more edge, as a primary half-edge    *)
(* followed by its twin                                                     *)
AddEdge ==
    /\ pc = "construct"
    /\ Len(vd) < 2 * MaxEdges
    /\ \E e \in NextEdges(vd) : vd' = vd \o <<e, Twin(e)>>
    /\ UNCHANGED <<vertex, Vertex, knots, wires, we, vFirst, vStart, vLast, pc>>
    /\ UNCHANGED <<sortVars, depthVars, runVars, pathVars>>

(* Line 295: the call _collectVoronoiWires(vd) *)
Call ==
    /\ pc = "construct"
    /\ pc' = "call"
    /\ UNCHANGED <<vd, vertex, Vertex, knots, wires, we, vFirst, vStart, vLast>>
    /\ UNCHANGED <<sortVars, depthVars, runVars, pathVars>>

(* Lines 66-85 and 104 *)
Build ==
    /\ pc = "call"
    /\ LET edges == PrimaryEdges(vd)
           vtx   == BuildVertex(edges)
       IN  /\ vertex' = vtx
           /\ Vertex' = vtx
           /\ knots' = Knots(VertexKeys(edges), vtx)
    /\ wires' = <<>>
    /\ pc' = "while"
    /\ UNCHANGED <<vd, we, vFirst, vStart, vLast>>
    /\ UNCHANGED <<sortVars, depthVars, runVars, pathVars>>

(* Lines 105-110: one more knot *)
NextKnot ==
    /\ pc = "while"
    /\ knots # <<>>
    /\ we' = <<>>
    /\ vFirst' = knots[1]
    /\ vStart' = knots[1]
    /\ vLast' = knots[1]
    /\ pc' = IF Len(vertex[knots[1]]) > 0 THEN "walk" ELSE "prune"
    /\ UNCHANGED <<vd, vertex, Vertex, knots, wires>>
    /\ UNCHANGED <<sortVars, depthVars, runVars, pathVars>>

(* Lines 111-118: one iteration of the inner loop *)
Walk ==
    /\ pc = "walk"
    /\ vStart # None
    /\ vLast' = vStart
    /\ IF Len(vertex[vStart]) > 0
       THEN LET t == traverse(vertex, vStart, vertex[vStart][1], we)
            IN  /\ vertex' = t.vertex
                /\ we' = t.edges
                /\ vStart' = t.ret
       ELSE /\ vStart' = None
            /\ UNCHANGED <<vertex, we>>
    /\ UNCHANGED <<vd, Vertex, knots, wires, vFirst, pc>>
    /\ UNCHANGED <<sortVars, depthVars, runVars, pathVars>>

(* Line 119: the inner loop is over *)
AppendWire ==
    /\ pc = "walk"
    /\ vStart = None
    /\ wires' = Append(wires, we)
    /\ pc' = "prune"
    /\ UNCHANGED <<vd, vertex, Vertex, knots, we, vFirst, vStart, vLast>>
    /\ UNCHANGED <<sortVars, depthVars, runVars, pathVars>>

(* Lines 120-123 *)
Prune ==
    /\ pc = "prune"
    /\ LET k1 == IF Len(vertex[vFirst]) = 0
                 THEN SelectSeq(knots, LAMBDA v : v # vFirst) ELSE knots
       IN  knots' = IF Len(vertex[vLast]) = 0
                    THEN SelectSeq(k1, LAMBDA v : v # vLast) ELSE k1
    /\ pc' = "while"
    /\ UNCHANGED <<vd, vertex, Vertex, wires, we, vFirst, vStart, vLast>>
    /\ UNCHANGED <<sortVars, depthVars, runVars, pathVars>>

(* Line 124 *)
Return ==
    /\ pc = "while"
    /\ knots = <<>>
    /\ pc' = "done"
    /\ UNCHANGED <<vd, vertex, Vertex, knots, wires, we, vFirst, vStart, vLast>>
    /\ UNCHANGED <<sortVars, depthVars, runVars, pathVars>>

InitWires ==
    /\ vd = <<>>
    /\ vertex = <<>>
    /\ Vertex = <<>>
    /\ knots = <<>>
    /\ wires = <<>>
    /\ we = <<>>
    /\ vFirst = None
    /\ vStart = None
    /\ vLast = None
    /\ pc = "construct"
    /\ toPoint = <<>>
    /\ begin = <<>>
    /\ end = <<>>
    /\ start = Origin
    /\ result = <<>>
    /\ tool = [Diameter |-> 0, TipDiameter |-> 0, CuttingEdgeAngle |-> 90]
    /\ bitShape = "endmill.fcstd"
    /\ zStart = 0
    /\ zFinal = 0
    /\ calculator = [kind |-> "none"]
    /\ raised = "none"
    /\ width = 0
    /\ depth = 0
    /\ NoRun
    /\ NoPath

NextWires ==
    \/ AddEdge
    \/ Call
    \/ Build
    \/ NextKnot
    \/ Walk
    \/ AppendWire
    \/ Prune
    \/ Return

SpecWires == InitWires /\ [][NextWires]_vars

(* Lines 105-124: the statements of the loop `while knots` and the return  *)
Loop ==
    \/ NextKnot
    \/ Walk
    \/ AppendWire
    \/ Prune
    \/ Return

(* The function runs on a single thread with no suspension point: once in   *)
(* the loop, as long as a statement is left to run, one is run              *)
SpecWiresFair == SpecWires /\ WF_vars(Loop)

-----------------------------------------------------------------------------
(* _sortVoronoiWires, PathVcarve.py:127-159 *)

(* start.distanceToPoint(p).  The square of the distance: the code only     *)
(* compares distances, and squaring keeps their order.                      *)
distanceToPoint(p, q) ==
    (p.x - q.x) * (p.x - q.x) + (p.y - q.y) * (p.y - q.y)

(* Lines 128-135: closestTo, over the keys of the dict in insertion order   *)
(* (ascending wire index).  [p, l]; l = -1 stands for None.                 *)
RECURSIVE closestToFrom(_, _, _, _, _)
closestToFrom(from, point, keys, p, l) ==
    IF keys = {} THEN [p |-> p, l |-> l]
    ELSE LET i == CHOOSE k \in keys : \A m \in keys : k <= m
             d == distanceToPoint(from, point[i])
         IN  IF l = -1 \/ l > d
             THEN closestToFrom(from, point, keys \ {i}, i, d)
             ELSE closestToFrom(from, point, keys \ {i}, p, l)

closestToFarthest(from, point) ==
    LET i == CHOOSE k \in DOMAIN point : \A m \in DOMAIN point :
                distanceToPoint(from, point[k]) >= distanceToPoint(from, point[m])
    IN  [p |-> i, l |-> distanceToPoint(from, point[i])]

closestTo(from, point) ==
    closestToFrom(from, point, DOMAIN point, None, -1)

(* Line 154: [e.Twin for e in reversed(wires[eIdx])] *)
ReversedKeepsEdges(w) ==
    [j \in DOMAIN w |-> w[Len(w) + 1 - j]]

Reversed(w) ==
    [j \in DOMAIN w |-> Twin(w[Len(w) + 1 - j])]

(* del d[i] *)
Del(dict, i) == [k \in (DOMAIN dict) \ {i} |-> dict[k]]

(* Wires are indexed from 1 here, from 0 in the code *)

(* Lines 137-144 *)
SortEntry ==
    /\ pc = "sort"
    /\ begin' = [i \in DOMAIN wires |-> toPoint[wires[i][1].Vertices[1]]]
    /\ end' = [i \in DOMAIN wires |-> toPoint[wires[i][Len(wires[i])].Vertices[2]]]
    /\ result' = <<>>
    /\ pc' = "sorting"
    /\ UNCHANGED <<wires, toPoint, start>>
    /\ UNCHANGED <<vd, vertex, Vertex, knots, we, vFirst, vStart, vLast>>
    /\ UNCHANGED <<depthVars, runVars, pathVars>>

(* Lines 145-157: one iteration of `while begin` *)
SortStep ==
    /\ pc = "sorting"
    /\ DOMAIN begin # {}
    /\ LET b == closestTo(start, begin)
           e == closestTo(start, end)
       IN  IF b.l < e.l
           THEN /\ result' = Append(result, wires[b.p])
                /\ start' = end[b.p]
                /\ begin' = Del(begin, b.p)
                /\ end' = Del(end, b.p)
           ELSE /\ result' = Append(result, Reversed(wires[e.p]))
                /\ start' = begin[e.p]
                /\ begin' = Del(begin, e.p)
                /\ end' = Del(end, e.p)
    /\ UNCHANGED <<wires, toPoint, pc>>
    /\ UNCHANGED <<vd, vertex, Vertex, knots, we, vFirst, vStart, vLast>>
    /\ UNCHANGED <<depthVars, runVars, pathVars>>

(* Line 159 *)
SortReturn ==
    /\ pc = "sorting"
    /\ DOMAIN begin = {}
    /\ pc' = "sorted"
    /\ UNCHANGED <<wires, toPoint, begin, end, start, result>>
    /\ UNCHANGED <<vd, vertex, Vertex, knots, we, vFirst, vStart, vLast>>
    /\ UNCHANGED <<depthVars, runVars, pathVars>>

(* Input wires.  Wire k runs from (b, 0) to (e, 0).  An open wire (b # e)   *)
(* follows the X axis in unit edges; a closed wire (b = e) is the triangle  *)
(* (b,0) -> (b+1,0) -> (b,1) -> (b,0).  Every wire has vertices and edges   *)
(* of its own; as in a collected wire, some of its half-edges are stored    *)
(* ones and some are twins.                                                 *)
Stride == MaxCoord + 3

WireLen(b, e) == IF b = e THEN 3 ELSE IF b < e THEN e - b ELSE b - e

VertexId(k, j) == (k - 1) * Stride + j

WirePoint(b, e, j) ==
    IF b = e
    THEN (IF j = 1 THEN [x |-> b, y |-> 0]
          ELSE IF j = 2 THEN [x |-> b + 1, y |-> 0]
          ELSE [x |-> b, y |-> 1])
    ELSE [x |-> IF b < e THEN b + (j - 1) ELSE b - (j - 1), y |-> 0]

MakeWire(k, b, e) ==
    [j \in 1..WireLen(b, e) |->
        LET from == VertexId(k, j)
            to   == IF b = e /\ j = 3 THEN VertexId(k, 1) ELSE VertexId(k, j + 1)
            u    == (k - 1) * Stride + (j - 1)
        IN  IF j % 2 = 1
            THEN [Index |-> 2 * u, Vertices |-> <<from, to>>, Color |-> PRIMARY]
            ELSE Twin([Index |-> 2 * u, Vertices |-> <<to, from>>, Color |-> PRIMARY])]

MakePoints(ends) ==
    [id \in UNION {{VertexId(k, j) : j \in 1..(WireLen(ends[k][1], ends[k][2]) + 1)} :
                      k \in DOMAIN ends} |->
        LET k == ((id - 1) \div Stride) + 1
            j == ((id - 1) % Stride) + 1
        IN  WirePoint(ends[k][1], ends[k][2], j)]

EndLists ==
    UNION {[1..n -> (0..MaxCoord) \X (0..MaxCoord)] : n \in 0..MaxWires}

InitSort ==
    /\ \E ends \in EndLists :
          /\ wires = [k \in DOMAIN ends |-> MakeWire(k, ends[k][1], ends[k][2])]
          /\ toPoint = MakePoints(ends)
    /\ begin = <<>>
    /\ end = <<>>
    /\ start = Origin
    /\ result = <<>>
    /\ pc = "sort"
    /\ vd = <<>>
    /\ vertex = <<>>
    /\ Vertex = <<>>
    /\ knots = <<>>
    /\ we = <<>>
    /\ vFirst = None
    /\ vStart = None
    /\ vLast = None
    /\ tool = [Diameter |-> 0, TipDiameter |-> 0, CuttingEdgeAngle |-> 90]
    /\ bitShape = "endmill.fcstd"
    /\ zStart = 0
    /\ zFinal = 0
    /\ calculator = [kind |-> "none"]
    /\ raised = "none"
    /\ width = 0
    /\ depth = 0
    /\ NoRun
    /\ NoPath

NextSort ==
    \/ SortEntry
    \/ SortStep
    \/ SortReturn

SpecSort == InitSort /\ [][NextSort]_vars

-----------------------------------------------------------------------------
(* PathWidthToDepth.py.  Lengths are whole numbers: diameters are drawn     *)
(* even, cutting edge angles are those whose half-angle tangent is 1/2, 1   *)
(* or 2, and other inputs are drawn so that every product and quotient the  *)
(* code computes is a whole number; on such inputs the code's floating      *)
(* point arithmetic is exact.                                               *)

Max(a, b) == IF a >= b THEN a ELSE b

(* math.tan(math.radians(A / 2.0)) as a fraction n/d.  The angles 53 and    *)
(* 127 stand for 2*atan(1/2) = 53.13.. and 2*atan(2) = 126.87.. degrees.    *)
TanHalf(A) ==
    CASE A = 53  -> [n |-> 1, d |-> 2]
      [] A = 90  -> [n |-> 1, d |-> 1]
      [] A = 127 -> [n |-> 2, d |-> 1]

(* x * scale, for scale a fraction *)
Times(x, scale) == (x * scale.n) \div scale.d

Exact(x, scale) == (x * scale.n) % scale.d = 0

(* Lines 41-47: ConicalWidthToDepthCalculator.__init__ up to SetLimits(0,0) *)
ConicalFieldsTipNotHalved(Diameter, TipDiameter, CuttingEdgeAngle) ==
    LET toolangle == TanHalf(CuttingEdgeAngle)
        scale     == [n |-> toolangle.d, d |-> toolangle.n]
    IN  [kind  |-> "Conical",
         rMax  |-> Diameter \div 2,
         rMin  |-> TipDiameter,
         scale |-> scale,
         zOff  |-> Times(TipDiameter, scale)]

ConicalFields(Diameter, TipDiameter, CuttingEdgeAngle) ==
    LET toolangle == TanHalf(CuttingEdgeAngle)
        scale     == [n |-> toolangle.d, d |-> toolangle.n]
        rMin      == TipDiameter \div 2
    IN  [kind  |-> "Conical",
         rMax  |-> Diameter \div 2,
         rMin  |-> rMin,
         scale |-> scale,
         zOff  |-> Times(rMin, scale)]

(* Lines 49-52: ConicalWidthToDepthCalculator.SetLimits; [start, stop] *)
ConicalLimitsIgnoreFinal(c, zs, zf) ==
    [start |-> zs + c.zOff,
     stop  |-> (zs - Times(c.rMax, c.scale)) + c.zOff]

ConicalLimits(c, zs, zf) ==
    LET zStop == zs - Times(c.rMax, c.scale)
    IN  [start |-> zs + c.zOff,
         stop  |-> Max(zStop + c.zOff, zf)]

(* Lines 54-56: ConicalWidthToDepthCalculator.WidthToDepth *)
ConicalWidthToDepth(c, w) ==
    LET d == Times(w, c.scale)
    IN  Max(c.start - d, c.stop)

(* math.sqrt on a perfect square *)
IsSquare(n) == \E k \in 0..n : k * k = n
Sqrt(n) == CHOOSE k \in 0..n : k * k = n

(* Lines 71-73: SphericalWidthToDepthCalculator.__init__ up to SetLimits(0,0) *)
SphericalFields(Diameter) ==
    [kind      |-> "Spherical",
     rMax      |-> Diameter \div 2,
     r_squared |-> (Diameter \div 2) * (Diameter \div 2)]

(* Lines 76-79: SphericalWidthToDepthCalculator.SetLimits; [start, stop] *)
SphericalLimits(c, zs, zf) ==
    LET zStop == zs - c.rMax
    IN  [start |-> zs, stop |-> Max(zStop, zf)]

(* Lines 81-87: SphericalWidthToDepthCalculator.WidthToDepth *)
SphericalWidthToDepth(c, w) ==
    LET d == IF w < c.rMax
             THEN c.rMax - Sqrt(c.r_squared - w * w)
             ELSE c.rMax
    IN  Max(c.start - d, c.stop)

(* Lines 97-110: the calculator of an unsupported bit *)
UnsupportedFields == [kind |-> "Unsupported"]

(* calculator.SetLimits(zStart, zFinal), by class *)
SetLimits(c, zs, zf) ==
    CASE c.kind = "Conical" ->
            [c EXCEPT !.start = ConicalLimits(c, zs, zf).start,
                      !.stop  = ConicalLimits(c, zs, zf).stop]
      [] c.kind = "Spherical" ->
            [c EXCEPT !.start = SphericalLimits(c, zs, zf).start,
                      !.stop  = SphericalLimits(c, zs, zf).stop]
      [] c.kind = "Unsupported" -> c

(* The constructors: the fields, then SetLimits(0, 0) (lines 47, 74) *)
ConicalWidthToDepthCalculator(Diameter, TipDiameter, CuttingEdgeAngle) ==
    LET c == ConicalFields(Diameter, TipDiameter, CuttingEdgeAngle)
        l == ConicalLimits(c, 0, 0)
    IN  [kind |-> c.kind, rMax |-> c.rMax, rMin |-> c.rMin, scale |-> c.scale,
         zOff |-> c.zOff, start |-> l.start, stop |-> l.stop]

SphericalWidthToDepthCalculator(Diameter) ==
    LET c == SphericalFields(Diameter)
        l == SphericalLimits(c, 0, 0)
    IN  [kind |-> c.kind, rMax |-> c.rMax, r_squared |-> c.r_squared,
         start |-> l.start, stop |-> l.stop]

(* calculator.WidthToDepth(width), by class *)
WidthToDepth(c, w) ==
    CASE c.kind = "Conical" -> ConicalWidthToDepth(c, w)
      [] c.kind = "Spherical" -> SphericalWidthToDepth(c, w)
      [] c.kind = "Unsupported" -> 0

(* The properties IsLinear and SupportsVcarve, by class *)
IsLinear(c) == c.kind # "Spherical"

SupportsVcarve(c) == c.kind # "Unsupported"

(* bitShape.endswith(suffix), on the bit shapes of the model *)
endswith(shape, suffix) ==
    \/ shape = suffix
    \/ shape = "Tools/Shape/v-bit.fcstd" /\ suffix = "v-bit.fcstd"

(* Lines 112-130: the factory WidthToDepthCalculator(tool, bitShape, zStart, *)
(* zFinal).  PathWidthToDepth.py neither defines nor imports `translate`,    *)
(* so evaluating the argument of PrintError at line 117 raises NameError.    *)
Factory ==
    /\ pc = "new"
    /\ IF endswith(bitShape, "v-bit.fcstd")
       THEN IF tool.CuttingEdgeAngle >= 180
            THEN /\ raised' = "NameError"
                 /\ pc' = "raised"
                 /\ UNCHANGED calculator
            ELSE /\ calculator' = SetLimits(
                        ConicalWidthToDepthCalculator(
                            tool.Diameter, tool.TipDiameter, tool.CuttingEdgeAngle),
                        zStart, zFinal)
                 /\ pc' = "ready"
                 /\ UNCHANGED raised
       ELSE IF endswith(bitShape, "ballend.fcstd")
            THEN /\ calculator' = SetLimits(
                        SphericalWidthToDepthCalculator(tool.Diameter), zStart, zFinal)
                 /\ pc' = "ready"
                 /\ UNCHANGED raised
            ELSE /\ calculator' = SetLimits(UnsupportedFields, zStart, zFinal)
                 /\ pc' = "ready"
                 /\ UNCHANGED raised
    /\ UNCHANGED <<tool, bitShape, zStart, zFinal, width, depth>>
    /\ UNCHANGED <<wireVars_, sortVars, runVars, pathVars>>

(* A call calculator.WidthToDepth(w) *)
Query ==
    /\ pc \in {"ready", "queried"}
    /\ \E w \in 0..MaxWidth :
          /\ calculator.kind = "Conical" => Exact(w, calculator.scale)
          /\ calculator.kind = "Spherical" =>
                (w >= calculator.rMax \/ IsSquare(calculator.r_squared - w * w))
          /\ width' = w
          /\ depth' = WidthToDepth(calculator, w)
    /\ pc' = "queried"
    /\ UNCHANGED <<tool, bitShape, zStart, zFinal, calculator, raised>>
    /\ UNCHANGED <<wireVars_, sortVars, runVars, pathVars>>

(* A call calculator.SetLimits(zs, zf), rebinding the limits; width and     *)
(* depth hold the argument and the result of the last WidthToDepth call     *)
(* under the limits in force                                                *)
Rebind ==
    /\ pc \in {"ready", "queried"}
    /\ \E zs \in 0..MaxZStart, zf \in (0 - MaxDepth)..MaxZStart :
          /\ calculator' = SetLimits(calculator, zs, zf)
          /\ zStart' = zs
          /\ zFinal' = zf
    /\ width' = 0
    /\ depth' = 0
    /\ pc' = "ready"
    /\ UNCHANGED <<tool, bitShape, raised>>
    /\ UNCHANGED <<wireVars_, sortVars, runVars, pathVars>>

(* The tools: a v-bit has a diameter, a smaller tip diameter and a cutting  *)
(* edge angle; the other bits are described by their diameter               *)
Tools ==
    {t \in [Diameter : {2 * r : r \in 1..MaxRadius},
            TipDiameter : {2 * r : r \in 0..MaxTipRadius},
            CuttingEdgeAngle : {53, 90, 127, 180, 200}] :
        /\ t.TipDiameter < t.Diameter
        /\ t.CuttingEdgeAngle < 180 =>
            /\ Exact(t.Diameter \div 2, [n |-> TanHalf(t.CuttingEdgeAngle).d,
                                         d |-> TanHalf(t.CuttingEdgeAngle).n])
            /\ Exact(t.TipDiameter \div 2, [n |-> TanHalf(t.CuttingEdgeAngle).d,
                                            d |-> TanHalf(t.CuttingEdgeAngle).n])}

InitDepth ==
    /\ bitShape \in {"v-bit.fcstd", "Tools/Shape/v-bit.fcstd",
                     "ballend.fcstd", "endmill.fcstd"}
    /\ tool \in Tools
    /\ ~endswith(bitShape, "v-bit.fcstd") =>
          (tool.TipDiameter = 0 /\ tool.CuttingEdgeAngle = 90)
    /\ zStart \in 0..MaxZStart
    /\ zFinal \in (0 - MaxDepth)..MaxZStart
    /\ calculator = [kind |-> "none"]
    /\ raised = "none"
    /\ width = 0
    /\ depth = 0
    /\ pc = "new"
    /\ vd = <<>>
    /\ vertex = <<>>
    /\ Vertex = <<>>
    /\ knots = <<>>
    /\ wires = <<>>
    /\ we = <<>>
    /\ vFirst = None
    /\ vStart = None
    /\ vLast = None
    /\ toPoint = <<>>
    /\ begin = <<>>
    /\ end = <<>>
    /\ start = Origin
    /\ result = <<>>
    /\ NoRun
    /\ NoPath

NextDepth ==
    \/ Factory
    \/ Query
    \/ Rebind

SpecDepth == InitDepth /\ [][NextDepth]_vars

-----------------------------------------------------------------------------
(* _collectVoronoiWires and _sortVoronoiWires as buildPathMedial calls      *)
(* them: from the arguments to the return value                             *)

(* Lines 111-118: the inner loop, from vStart to the end of the walk *)
RECURSIVE walk(_, _, _, _)
walk(vtx, from, edges, last) ==
    IF from = None THEN [vertex |-> vtx, we |-> edges, vLast |-> last]
    ELSE IF Len(vtx[from]) > 0
         THEN LET t == traverse(vtx, from, vtx[from][1], edges)
              IN  walk(t.vertex, t.ret, t.edges, from)
         ELSE walk(vtx, None, edges, from)

(* Lines 105-124: the outer loop, from the knots to the wires returned *)
RECURSIVE whileKnots(_, _, _)
whileKnots(vtx, kn, ws) ==
    IF kn = <<>> THEN ws
    ELSE LET first == kn[1]
             w     == IF Len(vtx[first]) > 0
                      THEN walk(vtx, first, <<>>, first)
                      ELSE [vertex |-> vtx, we |-> <<>>, vLast |-> first]
             ws1   == IF Len(vtx[first]) > 0 THEN Append(ws, w.we) ELSE ws
             k1    == IF Len(w.vertex[first]) = 0
                      THEN SelectSeq(kn, LAMBDA v : v # first) ELSE kn
             k2    == IF Len(w.vertex[w.vLast]) = 0
                      THEN SelectSeq(k1, LAMBDA v : v # w.vLast) ELSE k1
         IN  whileKnots(w.vertex, k2, ws1)

(* Lines 65-124: _collectVoronoiWires(vd); [Vertex, wires] *)
collectVoronoiWires(d) ==
    LET edges == PrimaryEdges(d)
        vtx   == BuildVertex(edges)
    IN  [Vertex |-> vtx,
         wires  |-> whileKnots(vtx, Knots(VertexKeys(edges), vtx), <<>>)]

(* Lines 144-159: the loop of _sortVoronoiWires, to the result returned *)
RECURSIVE whileBegin(_, _, _, _, _, _)
whileBegin(ws, pt, b, e, from, res) ==
    IF DOMAIN b = {} THEN res
    ELSE LET cb == closestTo(from, b)
             ce == closestTo(from, e)
         IN  IF cb.l < ce.l
             THEN whileBegin(ws, pt, Del(b, cb.p), Del(e, cb.p), e[cb.p],
                             Append(res, ws[cb.p]))
             ELSE whileBegin(ws, pt, Del(b, ce.p), Del(e, ce.p), b[ce.p],
                             Append(res, Reversed(ws[ce.p])))

(* Lines 127-159: _sortVoronoiWires(wires), start at its default; pt maps   *)
(* a vertex to its point                                                    *)
sortVoronoiWires(ws, pt) ==
    whileBegin(ws, pt,
               [i \in DOMAIN ws |-> pt[ws[i][1].Vertices[1]]],
               [i \in DOMAIN ws |-> pt[ws[i][Len(ws[i])].Vertices[2]]],
               Origin, <<>>)

-----------------------------------------------------------------------------
(* _getPartEdges and cutWire, PathVcarve.py:161-276.  A 3-D point is        *)
(* [x, y, z]; a part edge is [First, Last], the points                      *)
(* valueAt(FirstParameter) and valueAt(LastParameter) of a line segment.    *)

(* Bound: number of points simplify3dLine returns for one wire *)
MaxPoints == 4

(* obj.SafeHeight.Value (lines 266, 269) *)
SafeHeight == 10

(* Part.LineSegment(p1, p2).toShape() *)
LineSegment(p1, p2) == [First |-> p1, Last |-> p2]

(* Lines 212-215: median.  Coordinates are drawn even, so the half is whole *)
median(v1, v2) ==
    [x |-> v1.x + (v2.x - v1.x) \div 2,
     y |-> v1.y + (v2.y - v1.y) \div 2,
     z |-> v1.z + (v2.z - v1.z) \div 2]

(* Lines 228-230: simplified_points after the midpoint is inserted *)
padPointsAppend(sp) ==
    IF Len(sp) % 2 # 0
    THEN Append(sp, median(sp[Len(sp) - 1], sp[Len(sp)]))
    ELSE sp

padPoints(sp) ==
    IF Len(sp) % 2 # 0
    THEN SubSeq(sp, 1, Len(sp) - 1)
            \o <<median(sp[Len(sp) - 1], sp[Len(sp)])>>
            \o <<sp[Len(sp)]>>
    ELSE sp

(* Lines 232-236: for i in range(0, len(simplified_points) - 1, 2) *)
pairPoints(sp) ==
    [k \in 1..(Len(sp) \div 2) |-> LineSegment(sp[2 * k - 1], sp[2 * k])]

(* The motion commands of one edge: a feed move to the end of the edge *)
cmdsForEdge(e) == <<[Name |-> "G1", x |-> e.Last.x, y |-> e.Last.y, z |-> e.Last.z]>>

RECURSIVE cmdsForEdges(_)
cmdsForEdges(edges) ==
    IF edges = <<>> THEN <<>>
    ELSE cmdsForEdge(Head(edges)) \o cmdsForEdges(Tail(edges))

(* Lines 264-276: cutWire.  A rapid to the safe height, a rapid above the   *)
(* start of the first edge, a plunge to it, then the moves of every edge;   *)
(* "-" is a coordinate the command leaves out                               *)
cutWire(edges) ==
    LET p == edges[1].First
    IN  <<[Name |-> "G0", x |-> "-", y |-> "-", z |-> SafeHeight],
          [Name |-> "G0", x |-> p.x, y |-> p.y, z |-> SafeHeight],
          [Name |-> "G1", x |-> p.x, y |-> p.y, z |-> p.z]>>
        \o cmdsForEdges(edges)

(* Lines 226-238: the rest of simplify_edges, after simplify3dLine (line    *)
(* 224) has returned simplified_points                                      *)
PairUp ==
    /\ pc = "simplified"
    /\ simplified_points' = padPoints(simplified_points)
    /\ simplified_edges' = pairPoints(padPoints(simplified_points))
    /\ pc' = "paired"
    /\ UNCHANGED path
    /\ UNCHANGED <<wireVars_, sortVars, depthVars, runVars>>

(* Line 310: cutWire(pWire) *)
CutWire ==
    /\ pc = "paired"
    /\ path' = cutWire(simplified_edges)
    /\ pc' = "cut"
    /\ UNCHANGED <<simplified_points, simplified_edges>>
    /\ UNCHANGED <<wireVars_, sortVars, depthVars, runVars>>

(* The points simplify3dLine may return: two or more points of a polyline,  *)
(* no two consecutive ones equal; a closed wire ends where it begins        *)
Points3 == [x : {0, 2}, y : {0, 2}, z : {0, -2}]

PointLists ==
    UNION {{sp \in [1..n -> Points3] : \A k \in 1..(n - 1) : sp[k] # sp[k + 1]} :
             n \in 2..MaxPoints}

InitPath ==
    /\ simplified_points \in PointLists
    /\ simplified_edges = <<>>
    /\ path = <<>>
    /\ pc = "simplified"
    /\ vd = <<>>
    /\ vertex = <<>>
    /\ Vertex = <<>>
    /\ knots = <<>>
    /\ wires = <<>>
    /\ we = <<>>
    /\ vFirst = None
    /\ vStart = None
    /\ vLast = None
    /\ toPoint = <<>>
    /\ begin = <<>>
    /\ end = <<>>
    /\ start = Origin
    /\ result = <<>>
    /\ tool = [Diameter |-> 0, TipDiameter |-> 0, CuttingEdgeAngle |-> 90]
    /\ bitShape = "endmill.fcstd"
    /\ zStart = 0
    /\ zFinal = 0
    /\ calculator = [kind |-> "none"]
    /\ raised = "none"
    /\ width = 0
    /\ depth = 0
    /\ NoRun

NextPath ==
    \/ PairUp
    \/ CutWire

SpecPath == InitPath /\ [][NextPath]_vars

-----------------------------------------------------------------------------
(* opExecute and buildPathMedial, PathVcarve.py:246-353.  A face is given   *)
(* by the wire <<b, e>> its diagram consists of (see MakeWire); the         *)
(* vertices of face k have indices of their own.  An exception may leave    *)
(* the construction of a diagram, _collectVoronoiWires or _getPartEdges.    *)
(* _sorting is 'global' (line 62).                                          *)

(* Bounds: faces handed to one run; runs of opExecute *)
MaxFaces == 2
MaxRuns == 2

FaceShapes == {<<0, 1>>, <<0, 2>>, <<1, 1>>}

FaceLists == UNION {[1..n -> FaceShapes] : n \in 0..MaxFaces}

(* Lines 281-293: the diagram of face k, every primary half-edge followed   *)
(* by its twin                                                              *)
DiagramOf(k, f) ==
    LET w == MakeWire(k, f[1], f[2])
    IN  [m \in 1..(2 * Len(w)) |->
            LET h      == w[(m + 1) \div 2]
                stored == IF h.Color = PRIMARY THEN h ELSE Twin(h)
            IN  IF m % 2 = 1 THEN stored ELSE Twin(stored)]

(* edge.getDistances(): the clearance at a vertex, 0 at the ends of an open *)
(* wire and 2 elsewhere                                                     *)
WireDistance(b, e, j) ==
    IF b # e /\ j \in {1, WireLen(b, e) + 1} THEN 0 ELSE 2

MakeDistances(ends) ==
    [id \in DOMAIN MakePoints(ends) |->
        LET k == ((id - 1) \div Stride) + 1
            j == ((id - 1) % Stride) + 1
        IN  WireDistance(ends[k][1], ends[k][2], j)]

(* Lines 161-167: _calculate_depth.  round(depth, 4) leaves a whole number  *)
(* as it is                                                                 *)
calculate_depth(MIC, c) == WidthToDepth(c, MIC)

(* Lines 169-174: _getPartEdge.  3-D points are counted in half units, so   *)
(* that the midpoint of two of them is whole                                *)
getPartEdge(edge, c) ==
    LET v0     == edge.Vertices[1]
        v1     == edge.Vertices[2]
        zBegin == calculate_depth(distance[v0], c)
        zEnd   == calculate_depth(distance[v1], c)
    IN  LineSegment([x |-> 2 * toPoint[v0].x, y |-> 2 * toPoint[v0].y, z |-> 2 * zBegin],
                    [x |-> 2 * toPoint[v1].x, y |-> 2 * toPoint[v1].y, z |-> 2 * zEnd])

(* Lines 217-222 and 240-242: the points of the part edges of a wire *)
partPoints(vWire, c) ==
    <<getPartEdge(vWire[1], c).First>>
        \o [k \in DOMAIN vWire |-> getPartEdge(vWire[k], c).Last]

(* How far p is from the line through a and b (from a, if b = a): the      *)
(* square of the distance, times the square of the length of a-b.  It is    *)
(* only compared with 0 and with the deviation of other points from the     *)
(* same line.                                                               *)
deviation(a, b, p) ==
    IF a = b
    THEN (p.x - a.x) * (p.x - a.x) + (p.y - a.y) * (p.y - a.y)
            + (p.z - a.z) * (p.z - a.z)
    ELSE LET cx == (b.y - a.y) * (p.z - a.z) - (b.z - a.z) * (p.y - a.y)
             cy == (b.z - a.z) * (p.x - a.x) - (b.x - a.x) * (p.z - a.z)
             cz == (b.x - a.x) * (p.y - a.y) - (b.y - a.y) * (p.x - a.x)
         IN  cx * cx + cy * cy + cz * cz

(* Line 224: PathUtils.simplify3dLine(points).  Inner points are merged     *)
(* away while the line stays within the tolerance of the points; the two    *)
(* end points stay.  Every deviation other than 0 is beyond the tolerance.  *)
RECURSIVE simplify3dLine(_)
simplify3dLine(points) ==
    LET n == Len(points)
    IN  IF n <= 2 THEN points
        ELSE LET dev(k) == deviation(points[1], points[n], points[k])
                 far    == CHOOSE k \in 2..(n - 1) :
                              \A m \in 2..(n - 1) :
                                 dev(k) > dev(m) \/ (dev(k) = dev(m) /\ k <= m)
             IN  IF dev(far) > 0
                 THEN LET l == simplify3dLine(SubSeq(points, 1, far))
                          r == simplify3dLine(SubSeq(points, far, n))
                      IN  SubSeq(l, 1, Len(l) - 1) \o r
                 ELSE <<points[1], points[n]>>

(* Lines 210-244: _getPartEdges, for the list sp simplify3dLine returned *)
getPartEdges(sp) == pairPoints(padPoints(sp))

(* The tools of a run: a v-bit, a v-bit with too wide an angle and an end   *)
(* mill                                                                     *)
RunTools ==
    {tb \in [tool : Tools, bitShape : {"v-bit.fcstd", "endmill.fcstd"}] :
        /\ tb.tool.Diameter = 4
        /\ tb.tool.TipDiameter = 0
        /\ tb.tool.CuttingEdgeAngle \in {90, 200}
        /\ tb.bitShape # "v-bit.fcstd" => tb.tool.CuttingEdgeAngle = 90}

(* Lines 313-347 and 278-279: opExecute up to the loop over the faces.  The *)
(* factory call (line 318) is outside the try block: its NameError leaves   *)
(* opExecute.                                                               *)
Execute ==
    /\ pc = "idle"
    /\ run < MaxRuns
    /\ run' = run + 1
    /\ \E tb \in RunTools, fs \in FaceLists :
          /\ tool' = tb.tool
          /\ bitShape' = tb.bitShape
          /\ zStart' = 0
          /\ zFinal' = 0 - MaxDepth
          /\ IF endswith(tb.bitShape, "v-bit.fcstd") /\ tb.tool.CuttingEdgeAngle >= 180
             THEN /\ raised' = "NameError"
                  /\ pc' = "idle"
                  /\ UNCHANGED <<calculator, VD, faces, toPoint, distance,
                                 voronoiWires, iter>>
             ELSE LET c == IF endswith(tb.bitShape, "v-bit.fcstd")
                           THEN SetLimits(ConicalWidthToDepthCalculator(
                                    tb.tool.Diameter, tb.tool.TipDiameter,
                                    tb.tool.CuttingEdgeAngle), 0, 0 - MaxDepth)
                           ELSE IF endswith(tb.bitShape, "ballend.fcstd")
                           THEN SetLimits(SphericalWidthToDepthCalculator(
                                    tb.tool.Diameter), 0, 0 - MaxDepth)
                           ELSE SetLimits(UnsupportedFields, 0, 0 - MaxDepth)
                  IN  /\ calculator' = c
                      /\ raised' = "none"
                      /\ IF SupportsVcarve(c) /\ fs # <<>>
                         THEN /\ faces' = fs
                              /\ toPoint' = MakePoints(fs)
                              /\ distance' = MakeDistances(fs)
                              /\ VD' = <<>>
                              /\ voronoiWires' = <<>>
                              /\ iter' = 0
                              /\ pc' = "faces"
                         ELSE /\ pc' = "idle"
                              /\ UNCHANGED <<VD, faces, toPoint, distance,
                                             voronoiWires, iter>>
    /\ UNCHANGED <<vd, vertex, Vertex, knots, wires, we, vFirst, vStart, vLast>>
    /\ UNCHANGED <<begin, end, start, result, width, depth>>
    /\ UNCHANGED <<VertexRun, pathlist, commandlist, pathVars>>

(* Lines 280-299: one face *)
Region ==
    /\ pc = "faces"
    /\ iter < Len(faces)
    /\ LET d == DiagramOf(iter + 1, faces[iter + 1])
           c == collectVoronoiWires(d)
       IN  /\ vd' = d
           /\ Vertex' = c.Vertex
           /\ VertexRun' = run
           /\ wires' = c.wires
           /\ voronoiWires' = voronoiWires \o c.wires
           /\ VD' = Append(VD, [f |-> faces[iter + 1], vd |-> d,
                                wires |-> c.wires, run |-> run])
    /\ iter' = iter + 1
    /\ UNCHANGED <<vertex, knots, we, vFirst, vStart, vLast, pc>>
    /\ UNCHANGED <<sortVars, depthVars, pathVars>>
    /\ UNCHANGED <<faces, distance, pathlist, commandlist, run>>

(* Lines 280-295: an exception leaves the construction of the diagram       *)
(* (lines 281-293), or _collectVoronoiWires once it has filled Vertex       *)
(* (lines 77-124)                                                           *)
RegionRaises ==
    /\ pc = "faces"
    /\ iter < Len(faces)
    /\ \E stage \in {"construct", "collect"} :
          IF stage = "collect"
          THEN /\ Vertex' = collectVoronoiWires(
                                DiagramOf(iter + 1, faces[iter + 1])).Vertex
               /\ VertexRun' = run
               /\ vd' = DiagramOf(iter + 1, faces[iter + 1])
          ELSE UNCHANGED <<Vertex, VertexRun, vd>>
    /\ raised' = "Exception"
    /\ pc' = "except"
    /\ UNCHANGED <<vertex, knots, wires, we, vFirst, vStart, vLast>>
    /\ UNCHANGED <<sortVars, pathVars>>
    /\ UNCHANGED <<tool, bitShape, zStart, zFinal, calculator, width, depth>>
    /\ UNCHANGED <<VD, faces, distance, voronoiWires, pathlist, commandlist, run, iter>>

(* Lines 301-305 *)
SortWires ==
    /\ pc = "faces"
    /\ iter = Len(faces)
    /\ voronoiWires' = sortVoronoiWires(voronoiWires, toPoint)
    /\ pathlist' = <<[Name |-> "(starting)", x |-> "-", y |-> "-", z |-> "-"]>>
    /\ iter' = 0
    /\ pc' = "wires"
    /\ UNCHANGED <<wireVars_, sortVars, depthVars, pathVars>>
    /\ UNCHANGED <<VD, VertexRun, faces, distance, commandlist, run>>

(* Lines 306-310: one wire.  `wires` is still the list of the last face,    *)
(* the one the last entry of VD holds                                       *)
WireCommitsAtOnce ==
    /\ pc = "wires"
    /\ iter < Len(voronoiWires)
    /\ LET sp    == simplify3dLine(partPoints(voronoiWires[iter + 1], calculator))
           pWire == getPartEdges(sp)
       IN  /\ wires' = Append(wires, pWire)
           /\ VD' = [VD EXCEPT ![Len(VD)].wires = Append(@, pWire)]
           /\ pathlist' = pathlist \o cutWire(pWire)
           /\ commandlist' = pathlist \o cutWire(pWire)
    /\ iter' = iter + 1
    /\ UNCHANGED <<vd, vertex, Vertex, knots, we, vFirst, vStart, vLast, pc>>
    /\ UNCHANGED <<sortVars, depthVars, pathVars>>
    /\ UNCHANGED <<VertexRun, faces, distance, voronoiWires, run>>

Wire ==
    /\ pc = "wires"
    /\ iter < Len(voronoiWires)
    /\ LET sp    == simplify3dLine(partPoints(voronoiWires[iter + 1], calculator))
           pWire == getPartEdges(sp)
       IN  /\ wires' = Append(wires, pWire)
           /\ VD' = [VD EXCEPT ![Len(VD)].wires = Append(@, pWire)]
           /\ pathlist' = pathlist \o cutWire(pWire)
    /\ iter' = iter + 1
    /\ UNCHANGED <<vd, vertex, Vertex, knots, we, vFirst, vStart, vLast, pc>>
    /\ UNCHANGED <<sortVars, depthVars, pathVars>>
    /\ UNCHANGED <<VertexRun, faces, distance, voronoiWires, commandlist, run>>

(* Line 307: an exception leaves _getPartEdges *)
WireRaises ==
    /\ pc = "wires"
    /\ iter < Len(voronoiWires)
    /\ raised' = "Exception"
    /\ pc' = "except"
    /\ UNCHANGED <<wireVars_, sortVars, pathVars, runVars>>
    /\ UNCHANGED <<tool, bitShape, zStart, zFinal, calculator, width, depth>>

(* opExecute returns: its locals and those of buildPathMedial are gone *)
Returned ==
    /\ pc' = "idle"
    /\ vd' = <<>>
    /\ wires' = <<>>
    /\ faces' = <<>>
    /\ toPoint' = <<>>
    /\ distance' = <<>>
    /\ voronoiWires' = <<>>
    /\ pathlist' = <<>>
    /\ iter' = 0
    /\ UNCHANGED <<vertex, Vertex, knots, we, vFirst, vStart, vLast>>
    /\ UNCHANGED <<begin, end, start, result>>
    /\ UNCHANGED <<depthVars, pathVars>>
    /\ UNCHANGED <<VD, VertexRun, run>>

(* Line 311, and the return from opExecute *)
Commit ==
    /\ pc = "wires"
    /\ iter = Len(voronoiWires)
    /\ commandlist' = pathlist
    /\ Returned

(* Lines 349-352: the handler logs the error; opExecute returns *)
Except ==
    /\ pc = "except"
    /\ UNCHANGED commandlist
    /\ Returned

InitRun ==
    /\ pc = "idle"
    /\ vd = <<>>
    /\ vertex = <<>>
    /\ Vertex = <<>>
    /\ knots = <<>>
    /\ wires = <<>>
    /\ we = <<>>
    /\ vFirst = None
    /\ vStart = None
    /\ vLast = None
    /\ toPoint = <<>>
    /\ begin = <<>>
    /\ end = <<>>
    /\ start = Origin
    /\ result = <<>>
    /\ tool = [Diameter |-> 0, TipDiameter |-> 0, CuttingEdgeAngle |-> 90]
    /\ bitShape = "endmill.fcstd"
    /\ zStart = 0
    /\ zFinal = 0
    /\ calculator = [kind |-> "none"]
    /\ raised = "none"
    /\ width = 0
    /\ depth = 0
    /\ NoRun
    /\ NoPath

NextRun ==
    \/ Execute
    \/ Region
    \/ RegionRaises
    \/ SortWires
    \/ Wire
    \/ WireRaises
    \/ Commit
    \/ Except

SpecRun == InitRun /\ [][NextRun]_vars

-----------------------------------------------------------------------------
(* The primary-edge graph handed to _collectVoronoiWires *)

InputEdges == PrimaryEdges(vd)

InputVertices == UsedVertices(InputEdges)

Degree(v) ==
    Cardinality({i \in DOMAIN InputEdges :
                   v \in {InputEdges[i].Vertices[1], InputEdges[i].Vertices[2]}})

Neighbours(S) ==
    S \cup {v \in InputVertices :
              \E i \in DOMAIN InputEdges :
                 \E u \in S : {u, v} = {InputEdges[i].Vertices[1],
                                        InputEdges[i].Vertices[2]}}

RECURSIVE Component(_)
Component(S) == IF Neighbours(S) = S THEN S ELSE Component(Neighbours(S))

Connected ==
    \A v \in InputVertices : Component({v}) = InputVertices

NaturalKnots == {v \in InputVertices : Degree(v) = 1 \/ Degree(v) > 2}

WireStart(w) == w[1].Vertices[1]
WireEnd(w) == w[Len(w)].Vertices[2]

(* How often the undirected edge u occurs in the wires *)
Occurrences(u) ==
    Cardinality({p \in (DOMAIN wires) \X (0..MaxEdges + 1) :
                   /\ p[2] \in DOMAIN wires[p[1]]
                   /\ Undirected(wires[p[1]][p[2]]) = u})

WiresPartitionEdges ==
    /\ \A i \in DOMAIN InputEdges : Occurrences(Undirected(InputEdges[i])) = 1
    /\ \A i \in DOMAIN wires : \A j \in DOMAIN wires[i] :
          \E k \in DOMAIN InputEdges :
             wires[i][j] \in {InputEdges[k], Twin(InputEdges[k])}

YBranch ==
    /\ Cardinality({v \in InputVertices : Degree(v) = 3}) = 1
    /\ Cardinality({v \in InputVertices : Degree(v) = 1}) = 3
    /\ \A v \in InputVertices : Degree(v) \in {1, 2, 3}
    /\ Connected

PureCycle ==
    /\ InputVertices # {}
    /\ \A v \in InputVertices : Degree(v) = 2
    /\ Connected

-----------------------------------------------------------------------------
(* C1: the wires returned by _collectVoronoiWires partition the primary    *)
(* edge set: every undirected primary edge occurs in exactly one wire,     *)
(* exactly once, and the wires hold nothing else.                          *)
C1_WiresPartitionEdges ==
    pc = "done" => WiresPartitionEdges

(* C2 as stated: on a Y-branch exactly three wires are returned and they    *)
(* partition the primary edge set.                                          *)
C2_YBranchThreeWires ==
    (pc = "done" /\ YBranch) => (Len(wires) = 3 /\ WiresPartitionEdges)

(* C2 as amended: on a Y-branch exactly two wires are returned (the first   *)
(* runs from a leaf through the degree-3 vertex to a second leaf, the       *)
(* second from the third leaf to the degree-3 vertex) and they partition    *)
(* the primary edge set.                                                    *)
C2_YBranchTwoWires ==
    (pc = "done" /\ YBranch) =>
        /\ Len(wires) = 2
        /\ WiresPartitionEdges
        /\ Degree(WireStart(wires[1])) = 1 /\ Degree(WireEnd(wires[1])) = 1
        /\ Degree(WireStart(wires[2])) = 1 /\ Degree(WireEnd(wires[2])) = 3

C2_Witness ==
    /\ pc = "done"
    /\ YBranch
    /\ Len(InputEdges) = 4
    /\ Len(wires) = 2

(* C3: every wire begins at a knot and ends at a knot: a vertex of degree 1 *)
(* or of degree >= 3 or, when the graph has no such vertex, one vertex that *)
(* is the same for all wires.                                               *)
C3_WiresBeginAndEndAtKnots ==
    pc = "done" =>
        LET K == NaturalKnots
        IN  IF K # {}
            THEN \A i \in DOMAIN wires :
                    WireStart(wires[i]) \in K /\ WireEnd(wires[i]) \in K
            ELSE \A i, j \in DOMAIN wires :
                    WireStart(wires[i]) = WireEnd(wires[j])

C3_Witness ==
    /\ pc = "done"
    /\ Len(wires) = 2
    /\ \E v \in InputVertices : Degree(v) = 2
    /\ \E i \in DOMAIN wires : Degree(WireEnd(wires[i])) = 3

(* C4: in every wire the end vertex of edge[i] is the start vertex of       *)
(* edge[i+1], and each edge of a wire is a primary half-edge walked along   *)
(* its stored direction or the twin of one walked against it.               *)
C4_WireEdgesAreChained ==
    pc = "done" =>
        \A i \in DOMAIN wires :
            /\ \A j \in 1..(Len(wires[i]) - 1) :
                  wires[i][j].Vertices[2] = wires[i][j + 1].Vertices[1]
            /\ \A j \in DOMAIN wires[i] :
                  \E k \in DOMAIN InputEdges :
                     \/ /\ wires[i][j] = InputEdges[k]
                        /\ j = 1 \/ wires[i][j - 1].Vertices[2] = InputEdges[k].Vertices[1]
                     \/ /\ wires[i][j] = Twin(InputEdges[k])
                        /\ j = 1 \/ wires[i][j - 1].Vertices[2] = InputEdges[k].Vertices[2]

C4_Witness ==
    /\ pc = "done"
    /\ \E i \in DOMAIN wires :
          /\ Len(wires[i]) >= 3
          /\ \E j \in DOMAIN wires[i] : wires[i][j].Color = TWIN
          /\ \E j \in DOMAIN wires[i] : wires[i][j].Color = PRIMARY

(* C5: on a pure cycle a single knot is synthesized and exactly one wire is *)
(* returned; it holds every edge of the cycle and ends where it starts.     *)
C5_PureCycleOneClosedWire ==
    /\ (pc = "walk" /\ PureCycle) => knots = <<vFirst>>
    /\ (pc = "done" /\ PureCycle) =>
          /\ Len(wires) = 1
          /\ Len(wires[1]) = Len(InputEdges)
          /\ WiresPartitionEdges
          /\ WireStart(wires[1]) = WireEnd(wires[1])

C5_Witness ==
    /\ pc = "done"
    /\ PureCycle
    /\ Len(InputEdges) = 4
    /\ Len(wires) = 1

-----------------------------------------------------------------------------
(* Wires handed to and returned by _sortVoronoiWires *)

Chained(w) ==
    \A j \in 1..(Len(w) - 1) : w[j].Vertices[2] = w[j + 1].Vertices[1]

(* r is w reversed: the twins of w's edges, last edge first *)
IsReversalOf(r, w) ==
    /\ Len(r) = Len(w)
    /\ \A j \in DOMAIN w :
          /\ r[j].Index = Twin(w[Len(w) + 1 - j]).Index
          /\ r[j].Vertices = <<w[Len(w) + 1 - j].Vertices[2],
                               w[Len(w) + 1 - j].Vertices[1]>>

UndirectedEdges(w) == {Undirected(w[j]) : j \in DOMAIN w}

BeginPoint(w) == toPoint[WireStart(w)]
EndPoint(w) == toPoint[WireEnd(w)]

Orderings(n) ==
    {f \in [1..n -> 1..n] : \A i, j \in 1..n : f[i] = f[j] => i = j}

(* In the step from this state: wire i is placed, by its endpoint pt, which *)
(* no endpoint of an unplaced wire is nearer to the current position than   *)
NearestOfAll(pt) ==
    \A k \in DOMAIN begin :
        /\ distanceToPoint(start, pt) <= distanceToPoint(start, begin[k])
        /\ distanceToPoint(start, pt) <= distanceToPoint(start, end[k])

PlacesNearest ==
    LET placed == result'[Len(result')]
    IN  /\ Len(result') = Len(result) + 1
        /\ \E i \in DOMAIN begin :
              /\ DOMAIN begin' = (DOMAIN begin) \ {i}
              /\ DOMAIN end' = (DOMAIN end) \ {i}
              /\ begin[i] = BeginPoint(wires[i])
              /\ end[i] = EndPoint(wires[i])
              /\ \/ /\ NearestOfAll(end[i])
                    /\ IsReversalOf(placed, wires[i])
                 \/ /\ NearestOfAll(begin[i])
                    /\ placed = wires[i]
        /\ start' = EndPoint(placed)

(* Wire B's end is nearer to the reference point than any other endpoint *)
EndStrictlyNearest(B) ==
    /\ distanceToPoint(Origin, EndPoint(wires[B]))
          < distanceToPoint(Origin, BeginPoint(wires[B]))
    /\ \A k \in (DOMAIN wires) \ {B} :
          /\ distanceToPoint(Origin, EndPoint(wires[B]))
                < distanceToPoint(Origin, BeginPoint(wires[k]))
          /\ distanceToPoint(Origin, EndPoint(wires[B]))
                < distanceToPoint(Origin, EndPoint(wires[k]))

(* C6: every step of _sortVoronoiWires places a wire that owns an endpoint  *)
(* nearest to the current position among all endpoints of the unplaced      *)
(* wires, reversed if that endpoint is its end and as it is otherwise, and  *)
(* moves the current position to the last point of the wire as placed; and  *)
(* when wire B's end is nearer to the reference point than any other        *)
(* endpoint, the first wire of the result is B reversed.                    *)
C6_NearestEndpointNext ==
    /\ [][(pc = "sorting" /\ pc' = "sorting") => PlacesNearest]_vars
    /\ [](\A B \in DOMAIN wires :
            (pc \in {"sorting", "sorted"} /\ Len(result) >= 1 /\ EndStrictlyNearest(B))
                => IsReversalOf(result[1], wires[B]))

C6_Witness ==
    /\ pc = "sorted"
    /\ Len(wires) = 3
    /\ EndStrictlyNearest(2)
    /\ IsReversalOf(result[1], wires[2])
    /\ Len(wires[2]) >= 2
    /\ result[2] = wires[3]

(* C7: _sortVoronoiWires returns the wires it was given, each exactly once, *)
(* each unchanged or reversed; a reversed wire is the twins of the wire's   *)
(* edges in reverse order, and is a chained wire over the same undirected   *)
(* edges.                                                                   *)
C7_SameWiresUnchangedOrReversed ==
    pc = "sorted" =>
        /\ Len(result) = Len(wires)
        /\ \E f \in Orderings(Len(wires)) :
              \A k \in DOMAIN result :
                  /\ \/ result[k] = wires[f[k]]
                     \/ IsReversalOf(result[k], wires[f[k]])
                  /\ Chained(result[k])
                  /\ UndirectedEdges(result[k]) = UndirectedEdges(wires[f[k]])

C7_Witness ==
    /\ pc = "sorted"
    /\ Len(wires) = 3
    /\ \E k \in DOMAIN result :
          /\ Len(result[k]) >= 2
          /\ result[k] \notin Range(wires)
    /\ \E k \in DOMAIN result : result[k] \in Range(wires)

-----------------------------------------------------------------------------
(* The calculators, in terms of the tool and the limits *)

(* scale = 1 / tan(A/2) *)
ScaleOf(A) == [n |-> TanHalf(A).d, d |-> TanHalf(A).n]

(* (Td/2) * scale of a conical tool, 0 for any other *)
TipOffset ==
    IF calculator.kind = "Conical"
    THEN Times(tool.TipDiameter \div 2, ScaleOf(tool.CuttingEdgeAngle))
    ELSE 0

(* C8 as stated: for a supported calculator, limits zFinal <= zStart and a  *)
(* width w >= 0, zFinal <= WidthToDepth(w) <= zStart.                       *)
C8_DepthWithinLimits ==
    (pc = "queried" /\ SupportsVcarve(calculator) /\ zFinal <= zStart) =>
        (zFinal <= depth /\ depth <= zStart)

(* C8 as amended: for a supported calculator, limits zFinal <= zStart and a *)
(* width w >= 0, zFinal <= WidthToDepth(w) <= zStart + (Td/2)*scale for a   *)
(* conical calculator, whose tip offset (Td/2)*scale raises the upper bound *)
(* above zStart when Td > 0, and zFinal <= WidthToDepth(w) <= zStart for a  *)
(* spherical one.                                                           *)
C8_DepthWithinLimitsAndTipOffset ==
    (pc = "queried" /\ SupportsVcarve(calculator) /\ zFinal <= zStart) =>
        /\ zFinal <= depth
        /\ depth <= zStart + TipOffset
        /\ (calculator.kind = "Spherical" \/ tool.TipDiameter = 0) => depth <= zStart

C8_Witness ==
    /\ pc = "queried"
    /\ calculator.kind = "Conical"
    /\ tool.TipDiameter > 0
    /\ zFinal <= zStart
    /\ depth > zStart

(* C9: for a v-bit whose cutting edge angle is >= 180 degrees the factory   *)
(* returns the unsupported calculator (SupportsVcarve false, WidthToDepth   *)
(* always 0) and no exception leaves it.                                    *)
C9_ObtuseAngleYieldsUnsupported ==
    (pc # "new" /\ endswith(bitShape, "v-bit.fcstd") /\ tool.CuttingEdgeAngle >= 180) =>
        /\ raised = "none"
        /\ calculator.kind = "Unsupported"
        /\ ~SupportsVcarve(calculator)
        /\ \A w \in 0..MaxWidth : WidthToDepth(calculator, w) = 0

(* C10: for a conical tool with angle < 180 built by the factory,           *)
(* WidthToDepth(w) = max(start - w*scale, stop) with                        *)
(* start = zStart + (Td/2)*scale and                                        *)
(* stop = max(zStart - (D/2)*scale + (Td/2)*scale, zFinal); with D = 10,    *)
(* A = 90, zStart = 0: Td = 0, zFinal = -10 gives start 0 and stop -5,      *)
(* zFinal = -3 gives stop -3, Td = 2, zFinal = -10 gives start 1 and stop   *)
(* -4; with Td = 0 and no clamping WidthToDepth(0) = 0 and WidthToDepth(r/2) *)
(* is half of WidthToDepth(r).                                              *)
C10_ConicalDepthFormula ==
    (pc \in {"ready", "queried"} /\ calculator.kind = "Conical") =>
        LET D     == tool.Diameter
            Td    == tool.TipDiameter
            scale == ScaleOf(tool.CuttingEdgeAngle)
            st    == zStart + Times(Td \div 2, scale)
            sp    == Max((zStart - Times(D \div 2, scale)) + Times(Td \div 2, scale),
                         zFinal)
        IN  /\ calculator.start = st
            /\ calculator.stop = sp
            /\ pc = "queried" => depth = Max(st - Times(width, scale), sp)
            /\ (D = 10 /\ tool.CuttingEdgeAngle = 90 /\ zStart = 0) =>
                  /\ (Td = 0 /\ zFinal = -10) =>
                        (calculator.start = 0 /\ calculator.stop = -5)
                  /\ (Td = 0 /\ zFinal = -3) =>
                        (calculator.start = 0 /\ calculator.stop = -3)
                  /\ (Td = 2 /\ zFinal = -10) =>
                        (calculator.start = 1 /\ calculator.stop = -4)
            /\ (Td = 0 /\ zStart = 0) =>
                  /\ calculator.stop <= 0 => WidthToDepth(calculator, 0) = 0
                  /\ \A r \in 0..MaxWidth :
                        (/\ r % 2 = 0
                         /\ Exact(r \div 2, scale)
                         /\ calculator.stop <= 0 - Times(r, scale)) =>
                            2 * WidthToDepth(calculator, r \div 2)
                                = WidthToDepth(calculator, r)

C10_Witness ==
    /\ pc = "queried"
    /\ calculator.kind = "Conical"
    /\ tool = [Diameter |-> 10, TipDiameter |-> 2, CuttingEdgeAngle |-> 90]
    /\ zStart = 0
    /\ zFinal = -10
    /\ width = 3
    /\ depth = -2

-----------------------------------------------------------------------------
(* simplify_edges: the list simplify3dLine returned, the padded list and    *)
(* the segments made of it                                                  *)

IsMidpoint(m, a, b) ==
    /\ 2 * m.x = a.x + b.x
    /\ 2 * m.y = a.y + b.y
    /\ 2 * m.z = a.z + b.z

(* The segments that have entry k of the padded list pp as an endpoint *)
SegmentsAt(pp, se, k) ==
    {j \in DOMAIN se : \/ k = 2 * j - 1 /\ se[j].First = pp[k]
                       \/ k = 2 * j /\ se[j].Last = pp[k]}

(* C13: simplify_edges turns a simplified list of n >= 2 points into whole *)
(* 2-point segments: for odd n the midpoint of the last two points is       *)
(* inserted before the last point (for even n the list is left as it is),   *)
(* there are ceil(n/2) segments, every entry of the padded list is an       *)
(* endpoint of exactly one segment, the first segment starts at the first   *)
(* point and the last segment ends at the last point.                       *)
C13_WholeSegments ==
    [][(pc = "simplified" /\ pc' = "paired") =>
         LET sp == simplified_points
             n  == Len(sp)
             pp == simplified_points'
             se == simplified_edges'
         IN  /\ n % 2 = 1 =>
                  /\ Len(pp) = n + 1
                  /\ SubSeq(pp, 1, n - 1) = SubSeq(sp, 1, n - 1)
                  /\ IsMidpoint(pp[n], sp[n - 1], sp[n])
                  /\ pp[n + 1] = sp[n]
             /\ n % 2 = 0 => pp = sp
             /\ Len(se) = (n + 1) \div 2
             /\ \A k \in DOMAIN pp : Cardinality(SegmentsAt(pp, se, k)) = 1
             /\ se[1].First = sp[1]
             /\ se[Len(se)].Last = sp[n]]_vars

(* Three points came back, the midpoint (the only point with an odd         *)
(* coordinate) went in before the last one, and two segments were made      *)
C13_Witness ==
    /\ pc = "paired"
    /\ Len(simplified_points) = 4
    /\ Len(simplified_edges) = 2
    /\ \E c \in {"x", "y", "z"} : simplified_points[3][c] % 2 = 1

(* C15: the path edges of one wire form a continuous polyline: each        *)
(* segment ends where the next one starts.                                  *)
C15_ContinuousPolyline ==
    pc \in {"paired", "cut"} =>
        \A k \in 1..(Len(simplified_edges) - 1) :
            simplified_edges[k].Last = simplified_edges[k + 1].First

-----------------------------------------------------------------------------
(* C11: when an exception leaves the processing of a face or of a wire,    *)
(* self.commandlist is not assigned, not even with the commands of the      *)
(* faces and wires processed before it in the same run; it is assigned      *)
(* only once every face and every wire has been processed without error,    *)
(* and then with the whole pathlist.                                        *)
C11_NoPartialOutput ==
    [][/\ commandlist' # commandlist =>
            /\ pc = "wires"
            /\ raised = "none"
            /\ Len(VD) = Len(faces)
            /\ iter = Len(voronoiWires)
            /\ commandlist' = pathlist
       /\ (pc = "except" \/ pc' = "except") => commandlist' = commandlist]_vars

(* The second run fails on a wire after it has cut another one; the         *)
(* commands of the first run are still in place                             *)
C11_Witness ==
    /\ pc = "except"
    /\ run = 2
    /\ Len(VD) >= 1
    /\ Len(pathlist) > 1
    /\ commandlist # <<>>
    /\ commandlist # pathlist

(* C12: between runs, VD and Vertex hold only what the most recent run of  *)
(* opExecute has put there, whatever the outcome of that run.               *)
C12_ScratchStateOfLatestRun ==
    (pc = "idle" /\ run > 0) =>
        /\ \A k \in DOMAIN VD : VD[k].run = run
        /\ DOMAIN Vertex # {} => VertexRun = run

-----------------------------------------------------------------------------
(* The unconsumed incidences left in the dict `vertex` *)
RECURSIVE RemainingIn(_, _)
RemainingIn(vtx, S) ==
    IF S = {} THEN 0
    ELSE LET v == CHOOSE u \in S : TRUE
         IN  Len(vtx[v]) + RemainingIn(vtx, S \ {v})

Remaining(vtx) == RemainingIn(vtx, DOMAIN vtx)

(* The knots _collectVoronoiWires starts from; Vertex holds the dict as     *)
(* built                                                                    *)
InitialKnots == Range(Knots(VertexKeys(InputEdges), Vertex))

(* C14: _collectVoronoiWires terminates.  Every step of an inner walk      *)
(* consumes an edge, so the walk ends; every iteration of `while knots`     *)
(* has walked at least one edge or removes at least one knot; once in the   *)
(* loop the function returns, and then no knot has an unconsumed edge left. *)
C14_Terminates ==
    /\ [][(pc = "walk" /\ vStart # None) =>
             Remaining(vertex') < Remaining(vertex)]_vars
    /\ [][(pc = "prune" /\ pc' = "while") =>
             (we # <<>> \/ Len(knots') < Len(knots))]_vars
    /\ (pc = "while") ~> (pc = "done")
    /\ [](pc = "done" => \A k \in InitialKnots : Len(vertex[k]) = 0)

(* The function has returned two wires or more for a diagram of MaxEdges    *)
(* edges, and a knot consumed by the walk of another was dropped unwalked   *)
C14_Witness ==
    /\ pc = "done"
    /\ Len(vd) = 2 * MaxEdges
    /\ Len(wires) >= 2
    /\ Len(wires) < Cardinality(InitialKnots)

====
